---- MODULE Spec2Model ----
(***************************************************************************)
(* Model of the Python binding generator of the Slint compiler             *)
(* (internal/compiler/generator/python.rs): the identifier sanitizer, the  *)
(* type mapper, the construction of the python_ast::File by generate and   *)
(* its rendering by the Display implementations.                           *)
(*                                                                         *)
(* Text (SmolStr, &str) is modelled as a sequence of one-character         *)
(* strings, so that replacing, appending and comparing text are computed   *)
(* character by character.  Option<T> is modelled as a sequence of length  *)
(* zero (None) or one (Some).                                              *)
(***************************************************************************)
EXTENDS Naturals, Sequences, FiniteSets

VARIABLES doc, llr, pc, idx, file, need_enums_import, main_file,
          destination_path, relative_path, result, rendered, call,
          undo_stack, model, main_window, event

vars == <<doc, llr, pc, idx, file, need_enums_import, main_file,
          destination_path, relative_path, result, rendered, call,
          undo_stack, model, main_window, event>>

\* the state of the circledraw example
circledraw == <<undo_stack, model, main_window, event>>

(***************************************************************************)
(* Literal text of the generator.                                          *)
(***************************************************************************)
PYTHON_KEYWORDS ==
    { <<"F", "a", "l", "s", "e">>,
      <<"a", "w", "a", "i", "t">>,
      <<"e", "l", "s", "e">>,
      <<"i", "m", "p", "o", "r", "t">>,
      <<"p", "a", "s", "s">>,
      <<"N", "o", "n", "e">>,
      <<"b", "r", "e", "a", "k">>,
      <<"e", "x", "c", "e", "p", "t">>,
      <<"i", "n">>,
      <<"r", "a", "i", "s", "e">>,
      <<"T", "r", "u", "e">>,
      <<"c", "l", "a", "s", "s">>,
      <<"f", "i", "n", "a", "l", "l", "y">>,
      <<"i", "s">>,
      <<"r", "e", "t", "u", "r", "n">>,
      <<"a", "n", "d">>,
      <<"c", "o", "n", "t", "i", "n", "u", "e">>,
      <<"f", "o", "r">>,
      <<"l", "a", "m", "b", "d", "a">>,
      <<"t", "r", "y">>,
      <<"a", "s">>,
      <<"d", "e", "f">>,
      <<"f", "r", "o", "m">>,
      <<"n", "o", "n", "l", "o", "c", "a", "l">>,
      <<"w", "h", "i", "l", "e">>,
      <<"a", "s", "s", "e", "r", "t">>,
      <<"d", "e", "l">>,
      <<"g", "l", "o", "b", "a", "l">>,
      <<"n", "o", "t">>,
      <<"w", "i", "t", "h">>,
      <<"a", "s", "y", "n", "c">>,
      <<"e", "l", "i", "f">>,
      <<"i", "f">>,
      <<"o", "r">>,
      <<"y", "i", "e", "l", "d">> }
T_slint == <<"s", "l", "i", "n", "t">>
T_typing == <<"t", "y", "p", "i", "n", "g">>
T_enum == <<"e", "n", "u", "m">>
T_os == <<"o", "s">>
T_None == <<"N", "o", "n", "e">>
T_str == <<"s", "t", "r">>
T_slint_Color == <<"s", "l", "i", "n", "t", ".", "C", "o", "l", "o", "r">>
T_float == <<"f", "l", "o", "a", "t">>
T_slint_Image == <<"s", "l", "i", "n", "t", ".", "I", "m", "a", "g", "e">>
T_bool == <<"b", "o", "o", "l">>
T_Brush == <<"B", "r", "u", "s", "h">>
T_slint_Model_open == <<"s", "l", "i", "n", "t", ".", "M", "o", "d", "e", "l", "[">>
T_close == <<"]">>
T_typing_Tuple_open == <<"t", "y", "p", "i", "n", "g", ".", "T", "u", "p", "l", "e", "[">>
T_comma == <<",", " ">>
T_typing_Callable_open == <<"t", "y", "p", "i", "n", "g", ".", "C", "a", "l", "l", "a", "b", "l", "e", "[", "[">>
T_callable_mid == <<"]", ",", " ">>
T_enum_StrEnum == <<"e", "n", "u", "m", ".", "S", "t", "r", "E", "n", "u", "m">>
T_slint_Component == <<"s", "l", "i", "n", "t", ".", "C", "o", "m", "p", "o", "n", "e", "n", "t">>
T_init == <<"_", "_", "i", "n", "i", "t", "_", "_">>
T_quote == <<"\"">>
T_import == <<"i", "m", "p", "o", "r", "t", " ">>
T_nl == <<"\n">>
T_header_line == <<"#", " ", "T", "h", "i", "s", " ", "f", "i", "l", "e", " ", "i", "s", " ", "a", "u", "t", "o", "-", "g", "e", "n", "e", "r", "a", "t", "e", "d", "\n", "\n">>
T_class == <<"c", "l", "a", "s", "s", " ">>
T_lparen == <<"(">>
T_rparen_colon == <<")", ":">>
T_colon == <<":">>
T_indent == <<" ", " ", " ", " ">>
T_pass == <<"p", "a", "s", "s">>
T_assign == <<" ", "=", " ">>
T_typing_Optional_open == <<"t", "y", "p", "i", "n", "g", ".", "O", "p", "t", "i", "o", "n", "a", "l", "[">>
T_colon_space == <<":", " ">>
T_def == <<"d", "e", "f", " ">>
T_self == <<"(", "s", "e", "l", "f">>
T_star == <<",", " ", "*">>
T_arrow == <<")", " ", "-", ">", " ">>
T_ellipsis == <<":", " ", ".", ".", ".">>
T_comma_nospace == <<",">>
T_load_prefix == <<"g", "l", "o", "b", "a", "l", "s", "(", ")", ".", "u", "p", "d", "a", "t", "e", "(", "v", "a", "r", "s", "(", "s", "l", "i", "n", "t", ".", "l", "o", "a", "d", "_", "f", "i", "l", "e", "(", "o", "s", ".", "p", "a", "t", "h", ".", "j", "o", "i", "n", "(", "o", "s", ".", "p", "a", "t", "h", ".", "d", "i", "r", "n", "a", "m", "e", "(", "_", "_", "f", "i", "l", "e", "_", "_", ")", ",", " ", "'">>
T_load_suffix == <<"'", ")", ")", ")", ")">>
T_slash == <<"/">>

None == <<>>
Some(x) == <<x>>
IsSome(o) == Len(o) = 1
Unwrap(o) == o[1]

(***************************************************************************)
(* is_python_keyword and ident.                                            *)
(***************************************************************************)
is_python_keyword(word) == word \in PYTHON_KEYWORDS

contains(s, c) == \E k \in 1..Len(s) : s[k] = c

replace_smolstr(s, from, to) ==
    [k \in 1..Len(s) |-> IF s[k] = from THEN to ELSE s[k]]

\* ident as it would be without the keyword suffix
ident_without_suffix(id) ==
    IF contains(id, "-") THEN replace_smolstr(id, "-", "_") ELSE id

ident(id) ==
    LET new_ident == IF contains(id, "-") THEN replace_smolstr(id, "-", "_") ELSE id
    IN  IF is_python_keyword(new_ident) THEN new_ident \o <<"_">> ELSE new_ident

(***************************************************************************)
(* langtype::Type values.  A struct's fields are a BTreeMap in the         *)
(* compiler, iterated in key order: they are modelled as a sequence of     *)
(* [name, ty] records kept in that order.                                  *)
(***************************************************************************)
NumericKinds ==
    {"Float32", "Int32", "Duration", "Angle", "PhysicalLength", "LogicalLength",
     "Percent", "UnitProduct"}

Prim(k) == [kind |-> k]
Array(t) == [kind |-> "Array", elem |-> t]
Struct(name, node, fields) ==
    [kind |-> "Struct", name |-> name, node |-> node, fields |-> fields]
Enumeration(name, values) == [kind |-> "Enumeration", name |-> name, values |-> values]
Callback(args, ret) == [kind |-> "Callback", args |-> args, return_type |-> ret]
Function(args, ret) == [kind |-> "Function", args |-> args, return_type |-> ret]
NamedField(n, t) == [name |-> n, ty |-> t]

RECURSIVE Concat(_)
Concat(texts) ==
    IF texts = <<>> THEN <<>> ELSE Head(texts) \o Concat(Tail(texts))

RECURSIVE join(_, _)
join(texts, sep) ==
    IF texts = <<>> THEN <<>>
    ELSE IF Len(texts) = 1 THEN texts[1]
    ELSE texts[1] \o sep \o join(Tail(texts), sep)

(***************************************************************************)
(* python_type_name.  The result is [ok |-> TRUE, name |-> text] when the  *)
(* function returns and [ok |-> FALSE, why |-> the macro that aborts]      *)
(* when it panics; a panic in a recursive call aborts the whole call.      *)
(***************************************************************************)
Returns(text) == [ok |-> TRUE, name |-> text, why |-> "none"]
Panics(why) == [ok |-> FALSE, name |-> <<>>, why |-> why]

FirstPanic(rs) ==
    LET k == CHOOSE k \in 1..Len(rs) :
                 /\ ~rs[k].ok
                 /\ \A j \in 1..(k - 1) : rs[j].ok
    IN  rs[k]

AllOk(rs) == \A k \in 1..Len(rs) : rs[k].ok

Names(rs) == [k \in 1..Len(rs) |-> rs[k].name]

RECURSIVE python_type_name(_)
python_type_name(ty) ==
    CASE ty.kind = "Invalid" -> Panics("panic")
      [] ty.kind = "Void" -> Returns(T_None)
      [] ty.kind = "String" -> Returns(T_str)
      [] ty.kind = "Color" -> Returns(T_slint_Color)
      [] ty.kind \in NumericKinds -> Returns(T_float)
      [] ty.kind = "Image" -> Returns(T_slint_Image)
      [] ty.kind = "Bool" -> Returns(T_bool)
      [] ty.kind = "Brush" -> Returns(T_Brush)
      [] ty.kind = "Array" ->
            LET e == python_type_name(ty.elem)
            IN  IF e.ok THEN Returns(T_slint_Model_open \o e.name \o T_close) ELSE e
      [] ty.kind = "Struct" ->
            IF IsSome(ty.name) /\ ty.node THEN Returns(ident(Unwrap(ty.name)))
            ELSE IF IsSome(ty.name) THEN Panics("todo")
            ELSE LET tuple_types ==
                         [k \in 1..Len(ty.fields) |-> python_type_name(ty.fields[k].ty)]
                 IN  IF AllOk(tuple_types)
                     THEN Returns(T_typing_Tuple_open \o join(Names(tuple_types), T_comma)
                                      \o T_close)
                     ELSE FirstPanic(tuple_types)
      [] ty.kind = "Enumeration" -> Returns(ident(ty.name))
      [] ty.kind \in {"Callback", "Function"} ->
            LET args == [k \in 1..Len(ty.args) |-> python_type_name(ty.args[k])]
                ret == python_type_name(ty.return_type)
            IN  IF ~AllOk(args) THEN FirstPanic(args)
                ELSE IF ~ret.ok THEN ret
                ELSE Returns(T_typing_Callable_open \o join(Names(args), T_comma)
                                 \o T_callable_mid \o ret.name \o T_close)
      [] OTHER -> Panics("unimplemented")

(***************************************************************************)
(* python_ast: File, Declaration (Class | Variable), PyType, Field and     *)
(* FunctionDeclaration.                                                    *)
(***************************************************************************)
PyType(name, optional) == [name |-> name, optional |-> optional]

Field(name, ty, default_value) ==
    [name |-> name, ty |-> ty, default_value |-> default_value]

FunctionDeclaration(name, positional_parameters, keyword_parameters, return_type) ==
    [name |-> name, positional_parameters |-> positional_parameters,
     keyword_parameters |-> keyword_parameters, return_type |-> return_type]

Class(name, super_class, fields, function_declarations) ==
    [decl |-> "Class", name |-> name, super_class |-> super_class,
     fields |-> fields, function_declarations |-> function_declarations]

Variable(name, value) == [decl |-> "Variable", name |-> name, value |-> value]

DefaultFile == [imports |-> <<>>, declarations |-> <<>>, trailing_code |-> <<>>]

(***************************************************************************)
(* The Display implementations of python_ast.                              *)
(***************************************************************************)
fmt_PyType(ty) ==
    IF ty.optional THEN T_typing_Optional_open \o ty.name \o T_close ELSE ty.name

fmt_Field(field) ==
    field.name
    \o (IF IsSome(field.ty) THEN T_colon_space \o fmt_PyType(Unwrap(field.ty)) ELSE <<>>)
    \o (IF IsSome(field.default_value) THEN T_assign \o Unwrap(field.default_value)
        ELSE <<>>)

fmt_FunctionDeclaration(fundecl) ==
    T_def \o fundecl.name \o T_self
    \o (IF fundecl.positional_parameters # <<>>
        THEN T_comma \o join(fundecl.positional_parameters, T_comma_nospace) ELSE <<>>)
    \o (IF fundecl.keyword_parameters # <<>>
        THEN T_star \o T_comma
             \o join([k \in 1..Len(fundecl.keyword_parameters) |->
                         fmt_Field(fundecl.keyword_parameters[k])], T_comma)
        ELSE <<>>)
    \o T_arrow
    \o (IF IsSome(fundecl.return_type) THEN fmt_PyType(Unwrap(fundecl.return_type))
        ELSE T_None)
    \o T_ellipsis \o T_nl

fmt_Class(class) ==
    (IF IsSome(class.super_class)
     THEN T_class \o class.name \o T_lparen \o Unwrap(class.super_class)
          \o T_rparen_colon \o T_nl
     ELSE T_class \o class.name \o T_colon \o T_nl)
    \o (IF class.fields = <<>> /\ class.function_declarations = <<>>
        THEN T_indent \o T_pass \o T_nl
        ELSE Concat([k \in 1..Len(class.fields) |->
                        T_indent \o fmt_Field(class.fields[k]) \o T_nl])
             \o (IF class.fields # <<>> THEN T_nl ELSE <<>>)
             \o Concat([k \in 1..Len(class.function_declarations) |->
                           T_indent
                           \o fmt_FunctionDeclaration(class.function_declarations[k])
                           \o T_nl]))

fmt_Variable(variable) == variable.name \o T_assign \o variable.value \o T_nl

fmt_Declaration(d) == IF d.decl = "Class" THEN fmt_Class(d) ELSE fmt_Variable(d)

fmt_File(f) ==
    T_header_line
    \o Concat([k \in 1..Len(f.imports) |-> T_import \o f.imports[k] \o T_nl])
    \o T_nl
    \o Concat([k \in 1..Len(f.declarations) |->
                  fmt_Declaration(f.declarations[k]) \o T_nl])
    \o Concat([k \in 1..Len(f.trailing_code) |-> f.trailing_code[k] \o T_nl])

(***************************************************************************)
(* The parts of generate that build declarations.                          *)
(***************************************************************************)
AnyPanics(types) == \E k \in 1..Len(types) : ~python_type_name(types[k]).ok

PropertyTypes(props) == [k \in 1..Len(props) |-> props[k].ty]

\* python.rs 228-236: one Field per struct field or public property
TypedFields(props) ==
    [k \in 1..Len(props) |->
        Field(ident(props[k].name),
              Some(PyType(python_type_name(props[k].ty).name, FALSE)),
              None)]

generate_fields_for_public_properties(public_properties) ==
    TypedFields(public_properties)

\* python.rs 238-251: the keyword-only constructor of a struct class
StructCtor(fields) ==
    FunctionDeclaration(
        T_init, <<>>,
        [k \in 1..Len(fields) |->
            Field(fields[k].name,
                  Some(PyType(Unwrap(fields[k].ty).name, TRUE)),
                  Some(T_None))],
        None)

StructClassName(s) == Unwrap(s.name)

StructClass(s) ==
    LET fields == TypedFields(s.fields)
    IN  Class(StructClassName(s), None, fields, <<StructCtor(fields)>>)

\* the case name as declared, not legalized
EnumFieldName_raw(val) == val

EnumFieldName(val) == ident(val)

EnumFieldValue(val) == T_quote \o val \o T_quote

EnumClassName(en) == en.name

EnumClass(en) ==
    Class(EnumClassName(en), Some(T_enum_StrEnum),
          [k \in 1..Len(en.values) |->
              Field(EnumFieldName(en.values[k]), None,
                    Some(EnumFieldValue(en.values[k])))],
          <<>>)

\* python.rs 289: llr.globals.iter().filter(|glob| glob.exported && glob.must_generate())
IsGeneratedGlobal(glob) == glob.exported /\ glob.must_generate

globals(unit) == SelectSeq(unit.globals, IsGeneratedGlobal)

\* the aliases pushed before the class they name
generate_global_aliases_first(global) ==
    LET global_name == ident(global.name)
    IN  [k \in 1..Len(global.aliases) |->
            Variable(ident(global.aliases[k]), global_name)]
        \o <<Class(global_name, None,
                   TypedFields(global.public_properties), <<>>)>>

generate_global(global) ==
    LET global_name == ident(global.name)
    IN  <<Class(global_name, None,
                generate_fields_for_public_properties(global.public_properties), <<>>)>>
        \o [k \in 1..Len(global.aliases) |->
               Variable(ident(global.aliases[k]), global_name)]

GlobalField(glob) ==
    LET glob_name == ident(glob.name)
    IN  Field(glob_name, Some(PyType(glob_name, FALSE)), None)

\* the class without the fields of the globals
generate_public_component_without_globals(component, globs) ==
    Class(ident(component.name), Some(T_slint_Component),
          generate_fields_for_public_properties(component.public_properties),
          <<>>)

generate_public_component(component, globs) ==
    Class(ident(component.name), Some(T_slint_Component),
          generate_fields_for_public_properties(component.public_properties)
          \o [k \in 1..Len(globs) |-> GlobalField(globs[k])],
          <<>>)

\* python.rs 388-400: the (export name, type name) pair of an export entry, if any
ExportedPair(export) ==
    IF export.which = "Left"
    THEN IF ~export.component.is_global
         THEN Some(<<export.name, export.component.id>>) ELSE None
    ELSE IF export.ty.kind = "Struct"
         THEN IF IsSome(export.ty.name) /\ export.ty.node
              THEN Some(<<export.name, Unwrap(export.ty.name)>>) ELSE None
    ELSE IF export.ty.kind = "Enumeration"
         THEN Some(<<export.name, export.ty.name>>)
    ELSE None

\* python.rs 401: .filter(|(export_name, type_name)| export_name != type_name)
IsRenamed(pair) == pair[1] # pair[2]

KeepsExport(export) ==
    /\ IsSome(ExportedPair(export))
    /\ IsRenamed(Unwrap(ExportedPair(export)))

ExportAlias(export) ==
    LET pair == Unwrap(ExportedPair(export))
        type_id == ident(pair[2])
        export_id == ident(pair[1])
    IN  Variable(export_id, type_id)

generate_named_exports(exports) ==
    LET kept == SelectSeq(exports, KeepsExport)
    IN  [k \in 1..Len(kept) |-> ExportAlias(kept[k])]

(***************************************************************************)
(* generate, one action per step of its body.  pc is the position in the   *)
(* body, idx the position of the running loop, result the way the call     *)
(* ended: "Ok" (a File is returned), "Err" (an io::Error is returned) or   *)
(* "panic" (an unwrap, todo!, unimplemented! or panic! aborted it).        *)
(***************************************************************************)
Unset == [set |-> FALSE]

Running == result = "running"

Abort(how) ==
    /\ result' = how
    /\ UNCHANGED <<doc, llr, pc, idx, file, need_enums_import, main_file,
                   destination_path, relative_path, rendered, call, circledraw>>

PushDeclarations(decls) ==
    file' = [file EXCEPT !.declarations = @ \o decls]

\* python.rs 218-222
Start ==
    /\ pc = "start" /\ Running
    /\ file' = [DefaultFile EXCEPT !.imports = <<T_slint, T_typing>>]
    /\ need_enums_import' = FALSE
    /\ pc' = "structs_and_enums"
    /\ idx' = 1
    /\ UNCHANGED <<doc, llr, main_file, destination_path, relative_path, result,
                   rendered, call, circledraw>>

InTypeLoop ==
    /\ pc = "structs_and_enums" /\ Running
    /\ idx <= Len(doc.structs_and_enums)

\* python.rs 226-261: a struct of the catalogue that has a name
NamedStructStep ==
    /\ InTypeLoop
    /\ LET s == doc.structs_and_enums[idx]
       IN  /\ s.kind = "Struct" /\ IsSome(s.name)
           /\ IF AnyPanics(PropertyTypes(s.fields))
              THEN Abort("panic")
              ELSE /\ PushDeclarations(<<StructClass(s)>>)
                   /\ idx' = idx + 1
                   /\ UNCHANGED <<doc, llr, pc, need_enums_import, main_file,
                                  destination_path, relative_path, result, rendered,
                                  call, circledraw>>

\* python.rs 262-278
EnumerationStep ==
    /\ InTypeLoop
    /\ LET en == doc.structs_and_enums[idx]
       IN  /\ en.kind = "Enumeration"
           /\ need_enums_import' = TRUE
           /\ PushDeclarations(<<EnumClass(en)>>)
    /\ idx' = idx + 1
    /\ UNCHANGED <<doc, llr, pc, main_file, destination_path, relative_path, result,
                   rendered, call, circledraw>>

\* python.rs 227 (no name) and 279 (any other type): nothing is declared
SkippedTypeStep ==
    /\ InTypeLoop
    /\ LET ty == doc.structs_and_enums[idx]
       IN  /\ ty.kind # "Enumeration"
           /\ ~(ty.kind = "Struct" /\ IsSome(ty.name))
    /\ idx' = idx + 1
    /\ UNCHANGED <<doc, llr, pc, file, need_enums_import, main_file,
                   destination_path, relative_path, result, rendered, call, circledraw>>

\* the enum import pushed whether or not an enumeration was declared
WithEnumImport_always(f, need) == [f EXCEPT !.imports = Append(@, T_enum)]

\* python.rs 283-285
WithEnumImport(f, need) ==
    IF need THEN [f EXCEPT !.imports = Append(@, T_enum)] ELSE f

EnumImport ==
    /\ pc = "structs_and_enums" /\ Running
    /\ idx > Len(doc.structs_and_enums)
    /\ file' = WithEnumImport(file, need_enums_import)
    /\ pc' = "lower"
    /\ UNCHANGED <<doc, llr, idx, need_enums_import, main_file, destination_path,
                   relative_path, result, rendered, call, circledraw>>

\* python.rs 287: lower_to_item_tree(doc, compiler_config)? yields llr or an io::Error
Lower ==
    /\ pc = "lower" /\ Running
    /\ \E lowered \in BOOLEAN :
          IF lowered
          THEN /\ pc' = "globals"
               /\ idx' = 1
               /\ UNCHANGED <<doc, llr, file, need_enums_import, main_file,
                              destination_path, relative_path, result, rendered, call, circledraw>>
          ELSE Abort("Err")

\* python.rs 291-293
GlobalStep ==
    /\ pc = "globals" /\ Running
    /\ idx <= Len(globals(llr))
    /\ LET global == globals(llr)[idx]
       IN  IF AnyPanics(PropertyTypes(global.public_properties))
           THEN Abort("panic")
           ELSE /\ PushDeclarations(generate_global(global))
                /\ idx' = idx + 1
                /\ UNCHANGED <<doc, llr, pc, need_enums_import, main_file,
                               destination_path, relative_path, result, rendered, call, circledraw>>

GlobalsDone ==
    /\ pc = "globals" /\ Running
    /\ idx > Len(globals(llr))
    /\ pc' = "public_components"
    /\ idx' = 1
    /\ UNCHANGED <<doc, llr, file, need_enums_import, main_file, destination_path,
                   relative_path, result, rendered, call, circledraw>>

\* python.rs 295-297
ComponentStep ==
    /\ pc = "public_components" /\ Running
    /\ idx <= Len(llr.public_components)
    /\ LET public_component == llr.public_components[idx]
       IN  IF AnyPanics(PropertyTypes(public_component.public_properties))
           THEN Abort("panic")
           ELSE /\ PushDeclarations(<<generate_public_component(public_component,
                                                                globals(llr))>>)
                /\ idx' = idx + 1
                /\ UNCHANGED <<doc, llr, pc, need_enums_import, main_file,
                               destination_path, relative_path, result, rendered, call, circledraw>>

\* python.rs 299
NamedExports ==
    /\ pc = "public_components" /\ Running
    /\ idx > Len(llr.public_components)
    /\ PushDeclarations(generate_named_exports(doc.exports))
    /\ pc' = "main_file"
    /\ UNCHANGED <<doc, llr, idx, need_enums_import, main_file, destination_path,
                   relative_path, result, rendered, call, circledraw>>

(***************************************************************************)
(* The paths.  std::path::absolute, Path::parent and pathdiff::diff_paths  *)
(* belong to libraries: each outcome they can hand back to generate (Err   *)
(* or Ok, None or Some) is drawn when generate makes the call, and is      *)
(* recorded in main_file, destination_path and relative_path.  The main    *)
(* file is a source file that was read, so its absolute path has a parent  *)
(* directory and a file name.                                              *)
(***************************************************************************)
MainFileName == <<"m">>
RelativeDirs == {<<".", ".">>}

\* the destination_path argument, with what absolute and parent make of it
DestinationPaths ==
    { [arg |-> "None", absolute |-> "Ok", has_parent |-> TRUE],
      [arg |-> "Some", absolute |-> "Err", has_parent |-> TRUE],
      [arg |-> "Some", absolute |-> "Ok", has_parent |-> FALSE],
      [arg |-> "Some", absolute |-> "Ok", has_parent |-> TRUE] }

\* doc.node is None, or std::path::absolute fails, or it yields the path
MainFileOutcomes == {"no node", "absolute fails", "resolved"}

\* python.rs 301-308: ok_or_else(..)? returns the io::Error, unwrap() panics
MainFileResult(outcome) ==
    CASE outcome = "no node" -> "Err"
      [] outcome = "absolute fails" -> "panic"
      [] OTHER -> "running"

\* python.rs 301-308
MainFile ==
    /\ pc = "main_file" /\ Running
    /\ \E outcome \in MainFileOutcomes :
          /\ main_file' = [set |-> TRUE, outcome |-> outcome, file_name |-> MainFileName]
          /\ result' = MainFileResult(outcome)
          /\ pc' = IF outcome = "resolved" THEN "destination_path" ELSE pc
    /\ UNCHANGED <<doc, llr, idx, file, need_enums_import, destination_path,
                   relative_path, rendered, call, circledraw>>

\* python.rs 310-314: the directory of the destination, if there is one
DestinationDir(arg, absolute, has_parent) ==
    IF arg = "Some" /\ absolute = "Ok" /\ has_parent THEN Some("dir") ELSE None

\* python.rs 316-319: no destination directory, no relative path
RelativePaths(destination) ==
    IF IsSome(destination) THEN {None} \cup {Some(p) : p \in RelativeDirs} ELSE {None}

\* python.rs 326-327
LoadStatement(relative, file_name) ==
    T_load_prefix \o relative \o T_slash \o file_name \o T_load_suffix

\* the trailing statement pushed without the os import
WithTrailingCode_without_import(f, relative, file_name) ==
    IF IsSome(relative)
    THEN [f EXCEPT !.trailing_code = Append(@, LoadStatement(Unwrap(relative), file_name))]
    ELSE f

\* python.rs 321-329
WithTrailingCode(f, relative, file_name) ==
    IF IsSome(relative)
    THEN [f EXCEPT !.imports = Append(@, T_os),
                   !.trailing_code = Append(@, LoadStatement(Unwrap(relative), file_name))]
    ELSE f

\* python.rs 310-331
ResolvePaths ==
    /\ pc = "destination_path" /\ Running
    /\ \E given \in DestinationPaths :
          /\ LET destination ==
                     DestinationDir(given.arg, given.absolute, given.has_parent)
             IN  /\ destination_path' =
                        [set |-> TRUE, arg |-> given.arg, absolute |-> given.absolute,
                         has_parent |-> given.has_parent, dir |-> destination]
                 /\ \E relative \in RelativePaths(destination) :
                       /\ relative_path' = [set |-> TRUE, path |-> relative]
                       /\ file' = WithTrailingCode(file, relative, main_file.file_name)
    /\ pc' = "returned"
    /\ result' = "Ok"
    /\ UNCHANGED <<doc, llr, idx, need_enums_import, main_file, rendered, call, circledraw>>

\* python.rs 57-72: the caller renders the File it was returned
Display ==
    /\ pc = "returned" /\ result = "Ok"
    /\ rendered' = [set |-> TRUE, text |-> fmt_File(file)]
    /\ pc' = "rendered"
    /\ UNCHANGED <<doc, llr, idx, file, need_enums_import, main_file, destination_path,
                   relative_path, result, call, circledraw>>

Next ==
    \/ Start
    \/ NamedStructStep
    \/ EnumerationStep
    \/ SkippedTypeStep
    \/ EnumImport
    \/ Lower
    \/ GlobalStep
    \/ GlobalsDone
    \/ ComponentStep
    \/ NamedExports
    \/ MainFile
    \/ ResolvePaths
    \/ Display

(***************************************************************************)
(* The inputs of generate: the document (its type catalogue and export     *)
(* table) and the lowered unit (its globals and public components), built  *)
(* from small pools of entries.                                            *)
(***************************************************************************)
N_Pt == <<"P", "t">>
N_a_hy_b == <<"a", "-", "b">>
N_x == <<"x">>
N_y == <<"y">>
N_if == <<"i", "f">>
N_B == <<"B">>
N_k == <<"k">>
N_K == <<"K">>
N_Dir == <<"D", "i", "r">>
N_L == <<"L">>
N_R == <<"R">>
N_as == <<"a", "s">>
N_as_hy == <<"a", "s", "-">>
N_G == <<"G">>
N_g_hy_h == <<"g", "-", "h">>
N_H == <<"H">>
N_I == <<"I">>
N_count == <<"c", "o", "u", "n", "t">>
N_S == <<"S">>
N_T == <<"T">>
N_W == <<"W">>
N_Win == <<"W", "i", "n">>
N_p == <<"p">>
N_V == <<"V">>
N_cb == <<"c", "b">>
N_P == <<"P">>
N_D == <<"D">>
N_U == <<"U">>
N_K2 == <<"K", "2">>

\* a builtin struct: it has a name and no declaration node
BuiltinK == Struct(Some(N_K), FALSE, <<>>)
StructPt ==
    Struct(Some(N_Pt), TRUE, <<NamedField(N_x, Prim("Float32")), NamedField(N_y, Prim("Float32"))>>)
StructHy == Struct(Some(N_a_hy_b), TRUE, <<NamedField(N_if, Prim("Bool"))>>)
StructAnon == Struct(None, FALSE, <<NamedField(N_x, Prim("Int32"))>>)
StructBad == Struct(Some(N_B), TRUE, <<NamedField(N_k, BuiltinK)>>)
EnumDir == Enumeration(N_Dir, <<N_L, N_R>>)
EnumKw == Enumeration(N_as, <<N_a_hy_b, N_if>>)

TypePool == {StructPt, StructHy, StructAnon, StructBad, EnumDir, EnumKw}

GlobalComponent(name, exported, must_generate, public_properties, aliases) ==
    [name |-> name, exported |-> exported, must_generate |-> must_generate,
     public_properties |-> public_properties, aliases |-> aliases]

GlobalPool ==
    { GlobalComponent(N_G, TRUE, TRUE, <<NamedField(N_count, Prim("Int32"))>>, <<N_S, N_T>>),
      GlobalComponent(N_g_hy_h, TRUE, TRUE, <<>>, <<>>),
      GlobalComponent(N_H, FALSE, TRUE, <<NamedField(N_x, Prim("String"))>>, <<>>),
      GlobalComponent(N_I, TRUE, FALSE, <<>>, <<>>) }

PublicComponent(name, public_properties) ==
    [name |-> name, public_properties |-> public_properties]

ComponentPool ==
    { PublicComponent(N_W, <<NamedField(N_p, StructPt)>>),
      PublicComponent(N_if, <<NamedField(N_a_hy_b, Array(StructHy))>>),
      PublicComponent(N_U, <<NamedField(N_cb, Callback(<<Prim("String")>>, Prim("Void"))),
                             NamedField(N_x, EnumKw)>>),
      PublicComponent(N_V, <<NamedField(N_k, Array(BuiltinK))>>) }

\* The global dependencies of a public component: the globals it must receive
\* because its own bindings refer to them.  generate is not given them.
RequiredGlobals(component) ==
    CASE component.name = N_if -> {N_G}
      [] component.name = N_U -> {N_g_hy_h}
      [] OTHER -> {}

ExportedComponent(name, id, is_global) ==
    [name |-> name, which |-> "Left", component |-> [id |-> id, is_global |-> is_global]]
ExportedType(name, ty) == [name |-> name, which |-> "Right", ty |-> ty]

ExportPool ==
    { ExportedComponent(N_W, N_W, FALSE),
      ExportedComponent(N_Win, N_W, FALSE),
      ExportedComponent(N_S, N_G, TRUE),
      ExportedType(N_P, StructPt),
      ExportedType(N_a_hy_b, StructHy),
      ExportedType(N_as_hy, EnumKw),
      ExportedType(N_D, EnumDir),
      ExportedType(N_T, StructAnon),
      ExportedType(N_K2, BuiltinK) }

MaxItems == 4

Range(s) == {s[k] : k \in 1..Len(s)}

NoRepeat(s) == \A j, k \in 1..Len(s) : s[j] = s[k] => j = k

NamesOf(s) == [k \in 1..Len(s) |-> s[k].name]

\* the structs with a declaration and the enumerations a type refers to
RECURSIVE DeclaredTypesIn(_)
DeclaredTypesIn(ty) ==
    CASE ty.kind = "Array" -> DeclaredTypesIn(ty.elem)
      [] ty.kind = "Struct" ->
            (IF IsSome(ty.name) /\ ty.node THEN {ty} ELSE {})
            \cup UNION {DeclaredTypesIn(ty.fields[k].ty) : k \in 1..Len(ty.fields)}
      [] ty.kind = "Enumeration" -> {ty}
      [] ty.kind \in {"Callback", "Function"} ->
            DeclaredTypesIn(ty.return_type)
            \cup UNION {DeclaredTypesIn(ty.args[k]) : k \in 1..Len(ty.args)}
      [] OTHER -> {}

PropertiesDeclaredTypes(props) ==
    UNION {DeclaredTypesIn(props[k].ty) : k \in 1..Len(props)}

\* what the earlier compiler passes guarantee of the document and the unit
WellFormed(d, u) ==
    /\ NoRepeat(d.structs_and_enums)
    /\ NoRepeat(NamesOf(u.globals))
    /\ NoRepeat(NamesOf(u.public_components))
    /\ NoRepeat(NamesOf(d.exports))
    /\ \A ty \in Range(d.structs_and_enums) :
          DeclaredTypesIn(ty) \subseteq Range(d.structs_and_enums)
    /\ \A g \in Range(u.globals) :
          PropertiesDeclaredTypes(g.public_properties) \subseteq Range(d.structs_and_enums)
    /\ \A c \in Range(u.public_components) :
          /\ PropertiesDeclaredTypes(c.public_properties) \subseteq Range(d.structs_and_enums)
          /\ RequiredGlobals(c) \subseteq Range(NamesOf(u.globals))
    /\ \A e \in Range(d.exports) :
          IF e.which = "Right"
          THEN DeclaredTypesIn(e.ty) \subseteq Range(d.structs_and_enums)
          ELSE IF e.component.is_global
          THEN \E g \in Range(u.globals) :
                  g.name = e.component.id /\ g.exported /\ e.name \in Range(g.aliases)
          ELSE \E c \in Range(u.public_components) : c.name = e.component.id

Idle == [fn |-> "generate"]

\* circledraw's main is not running
NoWindow ==
    /\ undo_stack = [stack |-> <<>>, redo_offset |-> 0]
    /\ model = <<>>
    /\ main_window = [undoable |-> FALSE, redoable |-> FALSE]
    /\ event = [handler |-> "none", panicked |-> FALSE]

InitGenerate ==
    /\ \E a \in 0..MaxItems :
       \E b \in 0..(MaxItems - a) :
       \E c \in 0..(MaxItems - a - b) :
       \E e \in 0..(MaxItems - a - b - c) :
          /\ doc \in [structs_and_enums : [1..a -> TypePool], exports : [1..e -> ExportPool]]
          /\ llr \in [globals : [1..b -> GlobalPool],
                      public_components : [1..c -> ComponentPool]]
    /\ WellFormed(doc, llr)
    /\ pc = "start"
    /\ idx = 0
    /\ file = DefaultFile
    /\ need_enums_import = FALSE
    /\ main_file = Unset
    /\ destination_path = Unset
    /\ relative_path = Unset
    /\ result = "running"
    /\ rendered = Unset

Init == InitGenerate /\ call = Idle /\ NoWindow

Spec == Init /\ [][Next]_vars

(***************************************************************************)
(* ident and python_type_name on their own: the argument is drawn from a   *)
(* bounded set of identifiers or of types, and the function is applied to  *)
(* it.  generate stays where it is.                                        *)
(***************************************************************************)
EmptyDoc == [structs_and_enums |-> <<>>, exports |-> <<>>]
EmptyUnit == [globals |-> <<>>, public_components |-> <<>>]

NotGenerating ==
    /\ doc = EmptyDoc
    /\ llr = EmptyUnit
    /\ pc = "idle"
    /\ idx = 0
    /\ file = DefaultFile
    /\ need_enums_import = FALSE
    /\ main_file = Unset
    /\ destination_path = Unset
    /\ relative_path = Unset
    /\ result = "running"
    /\ rendered = Unset

GenerateUnchanged ==
    UNCHANGED <<doc, llr, pc, idx, file, need_enums_import, main_file,
                destination_path, relative_path, result, rendered>>

MaxIdentLen == 3
IdentAlphabet == {"a", "s", "i", "f", "-", "_"}
Identifiers == UNION {[1..n -> IdentAlphabet] : n \in 0..MaxIdentLen}

InitIdent ==
    /\ NotGenerating
    /\ NoWindow
    /\ \E s \in Identifiers : call = [fn |-> "ident", arg |-> s, rets |-> <<>>]

\* ident applied to the argument, then to its own result
IdentCall ==
    /\ call.fn = "ident"
    /\ Len(call.rets) < 2
    /\ call' = [call EXCEPT !.rets =
                   Append(@, ident(IF @ = <<>> THEN call.arg ELSE @[Len(@)]))]
    /\ GenerateUnchanged
    /\ UNCHANGED circledraw

NextIdent == IdentCall

SpecIdent == InitIdent /\ [][NextIdent]_vars

MaxTypeDepth == 2

LeafTypes ==
    {Prim(k) : k \in NumericKinds
                     \cup {"Invalid", "Void", "String", "Color", "Image", "Bool",
                           "Brush", "Easing"}}
    \cup {StructPt, StructHy, BuiltinK, EnumDir, EnumKw, Struct(None, FALSE, <<>>)}

TypesOver(t) ==
    { Array(t),
      Struct(None, FALSE, <<NamedField(N_x, t)>>),
      Struct(None, FALSE, <<NamedField(N_x, t), NamedField(N_y, Prim("Bool"))>>),
      Callback(<<t, Prim("Int32")>>, Prim("Void")),
      Function(<<>>, t) }

RECURSIVE TypesUpTo(_)
TypesUpTo(depth) ==
    IF depth = 0 THEN LeafTypes
    ELSE LET below == TypesUpTo(depth - 1)
         IN  below \cup UNION {TypesOver(t) : t \in below}

InitType ==
    /\ NotGenerating
    /\ NoWindow
    /\ \E ty \in TypesUpTo(MaxTypeDepth) :
          call = [fn |-> "python_type_name", arg |-> ty, ret |-> None]

TypeCall ==
    /\ call.fn = "python_type_name"
    /\ call.ret = None
    /\ call' = [call EXCEPT !.ret = Some(python_type_name(call.arg))]
    /\ GenerateUnchanged
    /\ UNCHANGED circledraw

NextType == TypeCall

SpecType == InitType /\ [][NextType]_vars

(***************************************************************************)
(* What the properties below read off a state.                             *)
(***************************************************************************)
Returned == result = "Ok"

IsDeclaredType(ty) ==
    \/ ty.kind = "Enumeration"
    \/ ty.kind = "Struct" /\ IsSome(ty.name)

\* the catalogue entries that get a class, in catalogue order
DeclaredCatalogue == SelectSeq(doc.structs_and_enums, IsDeclaredType)

IsExportedGenerated(g) == g.exported /\ g.must_generate

GeneratedGlobals == SelectSeq(llr.globals, IsExportedGenerated)

RECURSIVE GlobalDeclarationCount(_)
GlobalDeclarationCount(gs) ==
    IF gs = <<>> THEN 0
    ELSE 1 + Len(Head(gs).aliases) + GlobalDeclarationCount(Tail(gs))

\* the positions of the four groups in file.declarations
TypesEnd == Len(DeclaredCatalogue)
GlobalsEnd == TypesEnd + GlobalDeclarationCount(GeneratedGlobals)
ComponentsEnd == GlobalsEnd + Len(llr.public_components)

ExportPart == SubSeq(file.declarations, ComponentsEnd + 1, Len(file.declarations))

ClassNames == {d.name : d \in {x \in Range(file.declarations) : x.decl = "Class"}}

\* the declaration an export entry refers to, if it is one that can be aliased
AliasTarget(e) ==
    IF e.which = "Left"
    THEN IF e.component.is_global THEN None ELSE Some(e.component.id)
    ELSE IF e.ty.kind = "Enumeration" THEN Some(e.ty.name)
    ELSE IF e.ty.kind = "Struct" /\ IsSome(e.ty.name) /\ e.ty.node
         THEN Some(Unwrap(e.ty.name))
    ELSE None

Legal(s) == [k \in 1..Len(s) |-> IF s[k] = "-" THEN "_" ELSE s[k]]

C1_Differs(e) ==
    /\ IsSome(AliasTarget(e))
    /\ ident(e.name) # ident(Unwrap(AliasTarget(e)))

C1_Expected ==
    LET differing == SelectSeq(doc.exports, C1_Differs)
    IN  [k \in 1..Len(differing) |->
            Variable(ident(differing[k].name), ident(Unwrap(AliasTarget(differing[k]))))]

(***************************************************************************)
(* C1: generate_named_exports never emits an alias whose name equals its   *)
(* value, and the aliases it emits are exactly, in export-table order, one *)
(* `ident(external) = ident(internal)` for each export entry that refers   *)
(* to a non-global component, a named struct with a declaration or an      *)
(* enumeration and whose external name differs from the internal one once  *)
(* both are legalized; every other entry emits nothing.                    *)
(***************************************************************************)
C1_ExportAliases ==
    Returned =>
        /\ \A k \in 1..Len(ExportPart) : ExportPart[k].name # ExportPart[k].value
        /\ ExportPart = C1_Expected

C2_Kinds ==
    NumericKinds \cup {"Void", "String", "Bool", "Color", "Image", "Brush", "Array",
                       "Struct", "Enumeration", "Callback", "Function"}

RECURSIVE C2_InDomain(_)
C2_InDomain(ty) ==
    /\ ty.kind \in C2_Kinds
    /\ CASE ty.kind = "Array" -> C2_InDomain(ty.elem)
         [] ty.kind = "Struct" ->
               \A k \in 1..Len(ty.fields) : C2_InDomain(ty.fields[k].ty)
         [] ty.kind \in {"Callback", "Function"} ->
               /\ C2_InDomain(ty.return_type)
               /\ \A k \in 1..Len(ty.args) : C2_InDomain(ty.args[k])
         [] OTHER -> TRUE

(***************************************************************************)
(* C2: python_type_name returns, with a non-empty type expression, for     *)
(* every type built from void, string, bool, color, image, brush, the      *)
(* numeric kinds, arrays, structs (named with or without a declaration,    *)
(* or anonymous), enumerations and callbacks or functions, at any depth;   *)
(* Array(T) maps to `slint.Model[` + map(T) + `]`.                         *)
(***************************************************************************)
C2_TypeNameTotal ==
    (call.fn = "python_type_name" /\ IsSome(call.ret) /\ C2_InDomain(call.arg)) =>
        LET r == Unwrap(call.ret)
        IN  /\ r.ok
            /\ r.name # <<>>
            /\ call.arg.kind = "Array" =>
                  r.name = T_slint_Model_open \o python_type_name(call.arg.elem).name
                               \o T_close

(***************************************************************************)
(* C3: ident(s) contains no hyphen and is no Python keyword; it is s when  *)
(* s has no hyphen and is no keyword, and then ident(ident(s)) = ident(s); *)
(* when s with its hyphens replaced is a keyword, it is that keyword with  *)
(* exactly one trailing underscore, which differs from s.                  *)
(***************************************************************************)
C3_IdentLegal ==
    (call.fn = "ident" /\ call.rets # <<>>) =>
        LET s == call.arg
            r == call.rets[1]
        IN  /\ \A k \in 1..Len(r) : r[k] # "-"
            /\ r \notin PYTHON_KEYWORDS
            /\ ((\A k \in 1..Len(s) : s[k] # "-") /\ s \notin PYTHON_KEYWORDS) =>
                  /\ r = s
                  /\ Len(call.rets) = 2 => call.rets[2] = r
            /\ Legal(s) \in PYTHON_KEYWORDS =>
                  /\ r = Legal(s) \o <<"_">>
                  /\ r # s
                  /\ r[Len(r) - 1] # "_"

\* a keyword has been sanitized, and an identifier with a hyphen
C3_Witness ==
    /\ call.fn = "ident"
    /\ Len(call.rets) = 2
    /\ call.arg \in PYTHON_KEYWORDS
    /\ call.rets[1] = call.arg \o <<"_">>
    /\ call.rets[2] = call.rets[1]

Unquoted(text) == SubSeq(text, 2, Len(text) - 1)

IsQuoted(text) == Len(text) >= 2 /\ text[1] = "\"" /\ text[Len(text)] = "\""

IsEnumClass(d) == d.decl = "Class" /\ d.super_class = Some(T_enum_StrEnum)

EnumPositions == {k \in 1..TypesEnd : DeclaredCatalogue[k].kind = "Enumeration"}

C4_OneClassPerEnum ==
    /\ TypesEnd <= Len(file.declarations)
    /\ \A k \in 1..Len(file.declarations) :
          IsEnumClass(file.declarations[k]) <=> k \in EnumPositions
    /\ \A k \in EnumPositions :
          /\ file.declarations[k].name = DeclaredCatalogue[k].name
          /\ Len(file.declarations[k].fields) = Len(DeclaredCatalogue[k].values)
          /\ \A j \in 1..Len(file.declarations[k].fields) :
                LET f == file.declarations[k].fields[j]
                IN  /\ f.ty = None
                    /\ IsSome(f.default_value)
                    /\ IsQuoted(Unwrap(f.default_value))

(***************************************************************************)
(* C4 as first stated: every enumeration of the catalogue gets exactly one *)
(* Class with super class enum.StrEnum and one field per case in case      *)
(* order, the field's name and the text inside its quoted default value    *)
(* both being the case's name.                                             *)
(***************************************************************************)
C4_SameText ==
    Returned =>
        /\ C4_OneClassPerEnum
        /\ \A k \in EnumPositions :
              \A j \in 1..Len(DeclaredCatalogue[k].values) :
                 LET f == file.declarations[k].fields[j]
                 IN  /\ f.name = DeclaredCatalogue[k].values[j]
                     /\ Unquoted(Unwrap(f.default_value)) = f.name

(***************************************************************************)
(* C4, amended: every enumeration of the catalogue gets exactly one Class  *)
(* with super class enum.StrEnum and one field per case in case order; the *)
(* field's name is the legalized case name (no hyphen, no keyword) and the *)
(* text inside its quoted default value is the case name as declared, so   *)
(* the two are the same text exactly when the case name has no hyphen and  *)
(* is no Python keyword.                                                   *)
(***************************************************************************)
C4_EnumClasses ==
    Returned =>
        /\ C4_OneClassPerEnum
        /\ \A k \in EnumPositions :
              \A j \in 1..Len(DeclaredCatalogue[k].values) :
                 LET f == file.declarations[k].fields[j]
                     val == DeclaredCatalogue[k].values[j]
                 IN  /\ f.name = IF Legal(val) \in PYTHON_KEYWORDS
                                 THEN Legal(val) \o <<"_">> ELSE Legal(val)
                     /\ Unquoted(Unwrap(f.default_value)) = val
                     /\ (f.name = val) <=>
                           (val \notin PYTHON_KEYWORDS /\ \A c \in 1..Len(val) : val[c] # "-")

\* a File with an enumeration that has a plain case, and one whose cases have a
\* hyphen or are a keyword
C4_Witness ==
    /\ Returned
    /\ \E k, l \in EnumPositions :
          /\ \E j \in 1..Len(DeclaredCatalogue[k].values) :
                file.declarations[k].fields[j].name # DeclaredCatalogue[k].values[j]
          /\ \E j \in 1..Len(DeclaredCatalogue[l].values) :
                file.declarations[l].fields[j].name = DeclaredCatalogue[l].values[j]

ComponentClass(k) == file.declarations[GlobalsEnd + k]

C5_PropertyFields(props) ==
    [j \in 1..Len(props) |->
        [name |-> ident(props[j].name),
         ty |-> Some([name |-> python_type_name(props[j].ty).name, optional |-> FALSE]),
         default_value |-> None]]

C5_GlobalFields(gs) ==
    [j \in 1..Len(gs) |->
        [name |-> ident(gs[j].name),
         ty |-> Some([name |-> ident(gs[j].name), optional |-> FALSE]),
         default_value |-> None]]

C5_ComponentFields(required) ==
    Returned =>
        /\ ComponentsEnd <= Len(file.declarations)
        /\ \A k \in 1..Len(llr.public_components) :
              LET c == llr.public_components[k]
                  Required(g) == required => g.name \in RequiredGlobals(c)
              IN  /\ ComponentClass(k).decl = "Class"
                  /\ ComponentClass(k).super_class = Some(T_slint_Component)
                  /\ ComponentClass(k).fields =
                        C5_PropertyFields(c.public_properties)
                        \o C5_GlobalFields(SelectSeq(GeneratedGlobals, Required))

(***************************************************************************)
(* C5 as first stated: a public component's Class has super class          *)
(* slint.Component and its fields are one per public property (legalized   *)
(* name, mapped type, no default, in order) followed by one per global     *)
(* that the component requires; a global it does not depend on adds none.  *)
(***************************************************************************)
C5_RequiredGlobalsOnly == C5_ComponentFields(TRUE)

(***************************************************************************)
(* C5, amended: a public component's Class has super class slint.Component *)
(* and its fields are one per public property (legalized name, mapped      *)
(* type, no default, in order) followed by one per global of the unit that *)
(* is exported and generated, in the order of the globals, named and typed *)
(* by the global's legalized name, whether or not the component refers to  *)
(* that global; a global that is not exported or not generated adds none.  *)
(***************************************************************************)
C5_AllGeneratedGlobals == C5_ComponentFields(FALSE)

\* a component next to a generated global it does not refer to and to a global that
\* is not generated
C5_Witness ==
    /\ Returned
    /\ \E k \in 1..Len(llr.public_components) :
          /\ \E g \in Range(GeneratedGlobals) :
                g.name \notin RequiredGlobals(llr.public_components[k])
          /\ Len(ComponentClass(k).fields) >
                Len(llr.public_components[k].public_properties)
    /\ Len(GeneratedGlobals) < Len(llr.globals)

RECURSIVE GlobalStart(_)
GlobalStart(k) ==
    IF k = 1 THEN TypesEnd + 1
    ELSE GlobalStart(k - 1) + 1 + Len(GeneratedGlobals[k - 1].aliases)

IsStructClass(d) ==
    /\ d.decl = "Class"
    /\ d.super_class = None
    /\ Len(d.function_declarations) = 1

IsGlobalClass(d) ==
    /\ d.decl = "Class"
    /\ d.super_class = None
    /\ d.function_declarations = <<>>

IsComponentClass(d) == d.decl = "Class" /\ d.super_class = Some(T_slint_Component)

C6_TypeGroup ==
    \A k \in 1..TypesEnd :
       LET d == file.declarations[k]
           ty == DeclaredCatalogue[k]
       IN  IF ty.kind = "Enumeration"
           THEN IsEnumClass(d) /\ d.name = ty.name
           ELSE IsStructClass(d) /\ d.name = Unwrap(ty.name)

C6_GlobalGroup ==
    \A k \in 1..Len(GeneratedGlobals) :
       LET g == GeneratedGlobals[k]
           at == GlobalStart(k)
       IN  /\ IsGlobalClass(file.declarations[at])
           /\ file.declarations[at].name = ident(g.name)
           /\ \A j \in 1..Len(g.aliases) :
                 file.declarations[at + j] = Variable(ident(g.aliases[j]), ident(g.name))

C6_ComponentGroup ==
    \A k \in 1..Len(llr.public_components) :
       /\ IsComponentClass(ComponentClass(k))
       /\ ComponentClass(k).name = ident(llr.public_components[k].name)

\* a is b with some entries left out
RECURSIVE Embeds(_, _)
Embeds(a, b) ==
    IF a = <<>> THEN TRUE
    ELSE IF b = <<>> THEN FALSE
    ELSE IF Head(a) = Head(b) THEN Embeds(Tail(a), Tail(b))
    ELSE Embeds(a, Tail(b))

HasAliasTarget(e) == IsSome(AliasTarget(e))

\* the export aliases are aliases of export entries, in the order of the export table
C6_ExportGroup ==
    LET entries == SelectSeq(doc.exports, HasAliasTarget)
    IN  Embeds(ExportPart,
               [k \in 1..Len(entries) |->
                   Variable(ident(entries[k].name), ident(Unwrap(AliasTarget(entries[k]))))])

C6_Rendered ==
    rendered.set =>
        LET text == rendered.text
            imports == Concat([k \in 1..Len(file.imports) |->
                                  T_import \o file.imports[k] \o T_nl])
            decls == Concat([k \in 1..Len(file.declarations) |->
                                fmt_Declaration(file.declarations[k]) \o T_nl])
            code == Concat([k \in 1..Len(file.trailing_code) |->
                               file.trailing_code[k] \o T_nl])
            a == Len(T_header_line)
            b == a + Len(imports)
            c == b + 1 + Len(decls)
        IN  /\ Len(text) = c + Len(code)
            /\ SubSeq(text, 1, a) = T_header_line
            /\ SubSeq(text, a + 1, b) = imports
            /\ text[b + 1] = "\n"
            /\ SubSeq(text, b + 2, c) = decls
            /\ SubSeq(text, c + 1, Len(text)) = code

(***************************************************************************)
(* C6: in a returned File the declarations come in groups: the classes of  *)
(* the catalogue's structs and enumerations in catalogue order, then for   *)
(* each exported, generated global its class immediately followed by one   *)
(* alias Variable per additional export name, then the classes of the      *)
(* public components in component order, then the aliases of the export    *)
(* table; the rendered text is the marker header, then the imports, then   *)
(* the declarations, then the trailing statements.                         *)
(***************************************************************************)
C6_DeclarationOrder ==
    /\ Returned =>
          /\ ComponentsEnd <= Len(file.declarations)
          /\ C6_TypeGroup
          /\ C6_GlobalGroup
          /\ C6_ComponentGroup
          /\ C6_ExportGroup
    /\ C6_Rendered

\* a rendered File with a declaration of each group and a trailing statement
C6_Witness ==
    /\ rendered.set
    /\ TypesEnd > 0
    /\ \E g \in Range(GeneratedGlobals) : g.aliases # <<>>
    /\ llr.public_components # <<>>
    /\ ExportPart # <<>>
    /\ file.trailing_code # <<>>

(***************************************************************************)
(* C7: in a returned File the import list starts with `slint`, holds no    *)
(* entry twice, and holds `enum` exactly when the declarations hold the    *)
(* Class of an enumeration.                                                *)
(***************************************************************************)
C7_Imports ==
    Returned =>
        /\ file.imports # <<>>
        /\ file.imports[1] = T_slint
        /\ \A j, k \in 1..Len(file.imports) : file.imports[j] = file.imports[k] => j = k
        /\ (\E k \in 1..Len(file.imports) : file.imports[k] = T_enum)
              <=> (\E k \in 1..Len(file.declarations) : IsEnumClass(file.declarations[k]))

\* a File with an enumeration class, the enum import and the os import
C7_Witness ==
    /\ Returned
    /\ \E k \in 1..Len(file.declarations) : IsEnumClass(file.declarations[k])
    /\ T_enum \in Range(file.imports)
    /\ T_os \in Range(file.imports)

NoRelativePath ==
    \/ destination_path.arg = "None"
    \/ destination_path.absolute = "Err"
    \/ ~destination_path.has_parent
    \/ relative_path.path = None

(***************************************************************************)
(* C8: when generate is called without a destination path, or no relative  *)
(* path from the destination's directory to the main file's directory is   *)
(* found, generation still succeeds and the returned File has no trailing  *)
(* statement and no `os` import; otherwise it has exactly one trailing     *)
(* statement, the dynamic load, and `os` among its imports.                *)
(***************************************************************************)
C8_TrailingStatement ==
    destination_path.set =>
        /\ Returned
        /\ IF NoRelativePath
           THEN /\ file.trailing_code = <<>>
                /\ T_os \notin Range(file.imports)
           ELSE /\ Len(file.trailing_code) = 1
                /\ file.trailing_code[1] =
                      T_load_prefix \o Unwrap(relative_path.path) \o T_slash
                          \o main_file.file_name \o T_load_suffix
                /\ Cardinality({k \in 1..Len(file.imports) : file.imports[k] = T_os}) = 1

\* a File returned for a destination whose absolute path could not be made
C8_Witness ==
    /\ Returned
    /\ destination_path.set
    /\ destination_path.arg = "Some"
    /\ destination_path.absolute = "Err"
    /\ file.trailing_code = <<>>

(***************************************************************************)
(* C9: whenever the absolute path of the main file cannot be resolved (the *)
(* document has no node, or making its path absolute fails), generate ends *)
(* by returning an io::Error and no File; it does not panic.               *)
(***************************************************************************)
C9_ErrorNotPanic ==
    (main_file.set /\ main_file.outcome # "resolved") =>
        /\ result = "Err"
        /\ ~rendered.set

C10_Owners ==
    {DeclaredCatalogue[k].fields : k \in {j \in 1..TypesEnd :
                                            DeclaredCatalogue[j].kind = "Struct"}}
    \cup {g.public_properties : g \in Range(GeneratedGlobals)}
    \cup {c.public_properties : c \in Range(llr.public_components)}

(***************************************************************************)
(* C10: in a returned File every referenced class is declared: the name    *)
(* python_type_name gives to a struct with a declaration or to an          *)
(* enumeration that a field's type refers to, the type of every field that *)
(* stands for a global, and the value of every alias Variable is the name  *)
(* of a Class of the same File.                                            *)
(***************************************************************************)
C10_ReferencedDeclared ==
    Returned =>
        /\ \A props \in C10_Owners :
              \A ty \in PropertiesDeclaredTypes(props) :
                 python_type_name(ty).name \in ClassNames
        /\ \A k \in 1..Len(llr.public_components) :
              \A j \in 1..Len(ComponentClass(k).fields) :
                 j > Len(llr.public_components[k].public_properties) =>
                    Unwrap(ComponentClass(k).fields[j].ty).name \in ClassNames
        /\ \A d \in Range(file.declarations) :
              d.decl = "Variable" => d.value \in ClassNames

(***************************************************************************)
(* examples/7guis/circledraw.rs: the circle model, the UndoStack and the   *)
(* handlers main installs on the window.  Rows and redo_offset are         *)
(* 0-based as in the source; slot k of a Vec is element k + 1 here.        *)
(***************************************************************************)

\* the diameter of a freshly clicked circle
InitialDiameter == 30

Circle(x, y, d) == [x |-> x, y |-> y, d |-> d]

\* enum CircleChange
Added(row) == [kind |-> "Added", row |-> row]
Removed(row, circle) == [kind |-> "Removed", row |-> row, circle |-> circle]
Resized(row, old_d) == [kind |-> "Resized", row |-> row, old_d |-> old_d]

\* VecModel operations; each yields the new rows, or a panic where the
\* underlying Vec panics
Done(rows) == [ok |-> TRUE, rows |-> rows]
Panic(why) == [ok |-> FALSE, why |-> why]

row_count(rows) == Len(rows)

row_data(rows, row) ==
    IF row < Len(rows) THEN Some(rows[row + 1]) ELSE None

model_push(rows, circle) == Append(rows, circle)

model_remove(rows, row) ==
    IF row < Len(rows)
    THEN Done(SubSeq(rows, 1, row) \o SubSeq(rows, row + 2, Len(rows)))
    ELSE Panic("removal index out of bounds")

model_insert(rows, row, circle) ==
    IF row <= Len(rows)
    THEN Done(SubSeq(rows, 1, row) \o <<circle>>
                \o SubSeq(rows, row + 1, Len(rows)))
    ELSE Panic("insertion index out of bounds")

set_row_data(rows, row, circle) ==
    IF row < Len(rows) THEN [rows EXCEPT ![row + 1] = circle] ELSE rows

\* the closure main hands to UndoStack::new: applies the inverse of a
\* change to the model and returns the change that reverts it
Reverted(change, rows) == [ok |-> TRUE, change |-> change, rows |-> rows]

undo2redo(change, rows) ==
    IF change.kind = "Added" THEN
        LET circle == row_data(rows, change.row)
            removed == model_remove(rows, change.row)
        IN  IF ~IsSome(circle) THEN Panic("unwrap on None")
            ELSE IF ~removed.ok THEN removed
            ELSE Reverted(Removed(change.row, Unwrap(circle)), removed.rows)
    ELSE IF change.kind = "Removed" THEN
        LET inserted == model_insert(rows, change.row, change.circle)
        IN  IF ~inserted.ok THEN inserted
            ELSE Reverted(Added(change.row), inserted.rows)
    ELSE
        LET circle == row_data(rows, change.row)
        IN  IF ~IsSome(circle) THEN Panic("unwrap on None")
            ELSE LET d == Unwrap(circle).d
                 IN  Reverted(Resized(change.row, d),
                              set_row_data(rows, change.row,
                                  [Unwrap(circle) EXCEPT !.d = change.old_d]))

\* UndoStack::new
UndoStack_new == [stack |-> <<>>, redo_offset |-> 0]

Min(a, b) == IF a <= b THEN a ELSE b

push_without_truncate(s, change) ==
    [stack |-> Append(s.stack, Some(change)),
     redo_offset |-> s.redo_offset + 1]

\* UndoStack::push: Vec::truncate drops the redo actions, then the change
\* becomes the newest undo action
push(s, change) ==
    [stack |-> Append(SubSeq(s.stack, 1, Min(s.redo_offset, Len(s.stack))),
                      Some(change)),
     redo_offset |-> s.redo_offset + 1]

undoable(s) == s.redo_offset > 0

redoable(s) == s.redo_offset < Len(s.stack)

Stepped(s, rows) == [ok |-> TRUE, undo_stack |-> s, rows |-> rows]

\* UndoStack::undo.  The subtraction overflows at redo_offset = 0: a debug
\* build panics there, a release build wraps and panics at the unwrap of
\* get_mut, so either build panics.
undo(s, rows) ==
    IF s.redo_offset = 0 THEN Panic("redo_offset underflow")
    ELSE LET offset == s.redo_offset - 1
         IN  IF offset >= Len(s.stack) THEN Panic("unwrap on None")
             ELSE IF ~IsSome(s.stack[offset + 1]) THEN Panic("unwrap on None")
             ELSE LET redo == undo2redo(Unwrap(s.stack[offset + 1]), rows)
                  IN  IF ~redo.ok THEN redo
                      ELSE Stepped([stack |-> [s.stack EXCEPT ![offset + 1] =
                                                   Some(redo.change)],
                                    redo_offset |-> offset],
                                   redo.rows)

\* UndoStack::redo
redo(s, rows) ==
    IF s.redo_offset >= Len(s.stack) THEN Panic("unwrap on None")
    ELSE IF ~IsSome(s.stack[s.redo_offset + 1]) THEN Panic("unwrap on None")
    ELSE LET change == undo2redo(Unwrap(s.stack[s.redo_offset + 1]), rows)
         IN  IF ~change.ok THEN change
             ELSE Stepped([stack |-> [s.stack EXCEPT ![s.redo_offset + 1] =
                                          Some(change.change)],
                           redo_offset |-> s.redo_offset + 1],
                          change.rows)

(***************************************************************************)
(* main: the handlers.  Every handler ends by publishing undoable() and    *)
(* redoable() to the window, and the undo and redo handlers run only       *)
(* while the window shows the matching property as true.  A panic ends     *)
(* the process.                                                            *)
(***************************************************************************)
MaxChanges == 3
MaxCoordinate == 2
Coordinates == 1..MaxCoordinate
Diameters == {20, 40}

Alive == event.handler # "none" /\ ~event.panicked

Publish(s) == [undoable |-> undoable(s), redoable |-> redoable(s)]

\* the window offers undo and redo only while the property the handlers
\* publish is true
undo_enabled == main_window.undoable
redo_enabled == main_window.redoable

Handled(name) == event' = [handler |-> name, panicked |-> FALSE]

Crashed(name) ==
    /\ event' = [handler |-> name, panicked |-> TRUE]
    /\ UNCHANGED <<undo_stack, model, main_window>>

\* on_background_clicked
background_clicked(x, y) ==
    /\ Alive
    /\ undo_stack.redo_offset < MaxChanges
    /\ LET rows == model_push(model, Circle(x, y, InitialDiameter))
           s == push(undo_stack, Added(row_count(rows) - 1))
       IN  /\ model' = rows
           /\ undo_stack' = s
           /\ main_window' = Publish(s)
    /\ Handled("background_clicked")
    /\ GenerateUnchanged
    /\ UNCHANGED call

\* on_undo_clicked
undo_clicked ==
    /\ Alive
    /\ undo_enabled
    /\ LET r == undo(undo_stack, model)
       IN  IF r.ok
           THEN /\ undo_stack' = r.undo_stack
                /\ model' = r.rows
                /\ main_window' = Publish(r.undo_stack)
                /\ Handled("undo_clicked")
           ELSE Crashed("undo_clicked")
    /\ GenerateUnchanged
    /\ UNCHANGED call

\* on_redo_clicked
redo_clicked ==
    /\ Alive
    /\ redo_enabled
    /\ LET r == redo(undo_stack, model)
       IN  IF r.ok
           THEN /\ undo_stack' = r.undo_stack
                /\ model' = r.rows
                /\ main_window' = Publish(r.undo_stack)
                /\ Handled("redo_clicked")
           ELSE Crashed("redo_clicked")
    /\ GenerateUnchanged
    /\ UNCHANGED call

\* on_circle_resized, raised by the window for a circle it shows
circle_resized(row, diameter) ==
    /\ Alive
    /\ undo_stack.redo_offset < MaxChanges
    /\ LET circle == row_data(model, row)
       IN  IF IsSome(circle)
           THEN LET s == push(undo_stack, Resized(row, Unwrap(circle).d))
                IN  /\ model' = set_row_data(model, row,
                                    [Unwrap(circle) EXCEPT !.d = diameter])
                    /\ undo_stack' = s
                    /\ main_window' = Publish(s)
                    /\ Handled("circle_resized")
           ELSE Crashed("circle_resized")
    /\ GenerateUnchanged
    /\ UNCHANGED call

\* main up to main_window.run(): an empty model, a new UndoStack
InitWindow ==
    /\ NotGenerating
    /\ call = Idle
    /\ undo_stack = UndoStack_new
    /\ model = <<>>
    /\ main_window = [undoable |-> FALSE, redoable |-> FALSE]
    /\ event = [handler |-> "main", panicked |-> FALSE]

NextWindow ==
    \/ \E x \in Coordinates, y \in Coordinates : background_clicked(x, y)
    \/ undo_clicked
    \/ redo_clicked
    \/ \E row \in 0..(Len(model) - 1), diameter \in Diameters :
           circle_resized(row, diameter)

SpecWindow == InitWindow /\ [][NextWindow]_vars

(***************************************************************************)
(* UndoStack: what holds between handlers                                  *)
(***************************************************************************)

RECURSIVE UndoAll(_, _)
\* undo until nothing is undoable
UndoAll(s, rows) ==
    IF ~undoable(s) THEN Stepped(s, rows)
    ELSE LET r == undo(s, rows)
         IN  IF r.ok THEN UndoAll(r.undo_stack, r.rows) ELSE r

RECURSIVE RedoAll(_, _)
\* redo until nothing is redoable
RedoAll(s, rows) ==
    IF ~redoable(s) THEN Stepped(s, rows)
    ELSE LET r == redo(s, rows)
         IN  IF r.ok THEN RedoAll(r.undo_stack, r.rows) ELSE r

RECURSIVE RedoTo(_, _, _)
\* redo until redo_offset reaches offset
RedoTo(s, rows, offset) ==
    IF s.redo_offset >= offset THEN Stepped(s, rows)
    ELSE LET r == redo(s, rows)
         IN  IF r.ok THEN RedoTo(r.undo_stack, r.rows, offset) ELSE r

OffsetInRange ==
    undo_stack.redo_offset \in 0..Len(undo_stack.stack)

NoEmptySlot ==
    \A k \in 1..Len(undo_stack.stack) : IsSome(undo_stack.stack[k])

\* the entries below redo_offset undo the model back to the empty model
\* main starts from, and redoing them from there gives the model back
UndoActionsBelow ==
    LET back == UndoAll(undo_stack, model)
    IN  /\ back.ok
        /\ back.rows = <<>>
        /\ LET again == RedoTo(back.undo_stack, back.rows,
                               undo_stack.redo_offset)
           IN  /\ again.ok
               /\ again.rows = model
               /\ again.undo_stack = undo_stack

\* the entries at and after redo_offset can all be redone, and undoing
\* them again gives the model back
RedoActionsFrom ==
    LET forth == RedoAll(undo_stack, model)
    IN  /\ forth.ok
        /\ forth.undo_stack.redo_offset = Len(undo_stack.stack)
        /\ LET again == UndoAll(forth.undo_stack, forth.rows)
           IN  again.ok /\ again.rows = <<>>

AfterPush == event.handler \in {"background_clicked", "circle_resized"}

\* C11: for UndoStack, after any sequence of push, undo (only when
\* undoable()) and redo (only when redoable()): 0 <= redo_offset <=
\* stack.len(), no stack slot is left empty, the entries below redo_offset
\* are the undo actions and those at and after it the redo actions, undo
\* and redo never panic, and immediately after a push redoable() is false
\* and undoable() is true.
C11_UndoStack ==
    /\ ~event.panicked
    /\ OffsetInRange
    /\ NoEmptySlot
    /\ UndoActionsBelow
    /\ RedoActionsFrom
    /\ main_window = Publish(undo_stack)
    /\ AfterPush => ~redoable(undo_stack) /\ undoable(undo_stack)

\* a redo has just run and left a resize to undo below redo_offset and a
\* removed circle to redo above it
C11_Witness ==
    /\ event.handler = "redo_clicked"
    /\ undo_stack.redo_offset \in 1..(Len(undo_stack.stack) - 1)
    /\ \E k \in 1..undo_stack.redo_offset :
           Unwrap(undo_stack.stack[k]).kind = "Resized"
    /\ \E k \in (undo_stack.redo_offset + 1)..Len(undo_stack.stack) :
           Unwrap(undo_stack.stack[k]).kind = "Removed"

====
